---- MODULE Spec2Model ----
(***************************************************************************)
(* The news-aggregator API of src/app.js as a state machine: the in-memory  *)
(* user store, the bearer tokens clients hold, the clock the tokens expire  *)
(* against, and the requests suspended at an await.  One action per         *)
(* synchronous stretch of a handler: a handler that awaits (signup on       *)
(* bcrypt.hash, login on bcrypt.compare, news on axios.get) is two actions  *)
(* with the request held in a pending set in between; the middleware chain  *)
(* of a protected route is synchronous in express and is one action.        *)
(***************************************************************************)
EXTENDS Integers, Sequences, FiniteSets, TLC

(***************************************************************************)
(* JSON values.  Text is a sequence of one-character strings, so that the   *)
(* regular expression, toLowerCase, split and length work on characters.    *)
(***************************************************************************)
Undefined == [kind |-> "undefined", s |-> <<>>, items |-> <<>>]

Str(chars) == [kind |-> "string", s |-> chars, items |-> <<>>]

Num(digits) == [kind |-> "number", s |-> digits, items |-> <<>>]

Obj == [kind |-> "object", s |-> <<>>, items |-> <<>>]

Arr(elems) == [kind |-> "array", s |-> <<>>, items |-> elems]

\* an array element: a string or a number
EStr(chars) == [kind |-> "string", s |-> chars]

ENum(digits) == [kind |-> "number", s |-> digits]

\* JavaScript truthiness, as `!email`, `name || ''`, `!apiKey` use it
Truthy(v) ==
    CASE v.kind = "undefined" -> FALSE
      [] v.kind = "string" -> v.s # <<>>
      [] v.kind = "number" -> v.s # <<"0">>
      [] OTHER -> TRUE

RECURSIVE Join(_, _)
\* Array.prototype.join: the elements' texts with sep between them
Join(elems, sep) ==
    IF elems = <<>> THEN <<>>
    ELSE IF Len(elems) = 1 THEN elems[1].s
    ELSE elems[1].s \o sep \o Join(Tail(elems), sep)

\* String(v)
StringOf(v) ==
    CASE v.kind = "undefined" -> <<"u","n","d","e","f","i","n","e","d">>
      [] v.kind = "string" -> v.s
      [] v.kind = "number" -> v.s
      [] v.kind = "object" ->
           <<"[","o","b","j","e","c","t"," ","O","b","j","e","c","t","]">>
      [] OTHER -> Join(v.items, <<",">>)

\* Array.isArray(v)
IsArray(v) == v.kind = "array"

LowerChar(c) ==
    CASE c = "A" -> "a"
      [] c = "B" -> "b"
      [] c = "C" -> "c"
      [] OTHER -> c

\* String.prototype.toLowerCase
ToLowerCase(chars) == [i \in 1..Len(chars) |-> LowerChar(chars[i])]

\* the class [^\s@] of emailRegex
NotSpaceAt(c) == c \notin {" ", "@"}

\* /^[^\s@]+@[^\s@]+\.[^\s@]+$/ : one "@" with text before it, and after it a
\* "." with text on both sides; no white space and no second "@" anywhere
emailRegex(chars) ==
    \E at \in 1..Len(chars), dot \in 1..Len(chars) :
        /\ chars[at] = "@"
        /\ chars[dot] = "."
        /\ 1 < at
        /\ at + 1 < dot
        /\ dot < Len(chars)
        /\ \A j \in 1..Len(chars) : j # at => NotSpaceAt(chars[j])

(***************************************************************************)
(* A Map with string keys is a function whose domain is the keys present.   *)
(***************************************************************************)
EmptyMap == <<>>

MapHas(m, k) == k \in DOMAIN m

MapSet(m, k, v) == [x \in (DOMAIN m) \cup {k} |-> IF x = k THEN v ELSE m[x]]

(***************************************************************************)
(* Program constants.                                                       *)
(***************************************************************************)
JWT_SECRET == "dev_secret_change_me"

\* expiresIn: '1h', in the seconds jsonwebtoken counts in
ExpiresIn == 3600

\* the cost factor handed to bcrypt.hash
SaltRounds == 10


(***************************************************************************)
(* State.                                                                   *)
(***************************************************************************)
VARIABLES
    users,           \* the Map `users`: normalized email -> user record
    now,             \* the clock, in seconds
    ticks,           \* how many times the clock has advanced
    apiKey,          \* process.env.NEWS_API_KEY
    issued,          \* the tokens this process's logins have returned
    carried,         \* tokens clients hold from an earlier run of the process
    pendingSignups,  \* signups suspended at `await bcrypt.hash`
    pendingLogins,   \* logins suspended at `await bcrypt.compare`
    pendingNews,     \* news requests suspended at `await axios.get`
    hist,            \* per key: what the last signup wrote, the last PUT since
    last             \* the most recent response sent

vars ==
    <<users, now, ticks, apiKey, issued, carried, pendingSignups,
      pendingLogins, pendingNews, hist, last>>

(***************************************************************************)
(* Requests and responses.                                                  *)
(***************************************************************************)
\* req.body: the four fields the handlers destructure
Body(name, email, password, preferences) ==
    [name |-> name, email |-> email, password |-> password,
     preferences |-> preferences]

NoBody == Body(Undefined, Undefined, Undefined, Undefined)

NoTok == [email |-> <<>>, iat |-> 0, sig |-> ""]

\* a response: status, message and payload (req: the body a signup answers;
\* calls, cause: the outbound calls a news request made and what came back)
Reply(op, status, text) ==
    [op |-> op, status |-> status, text |-> text, req |-> NoBody,
     token |-> NoTok, prefs |-> Undefined, news |-> <<>>, calls |-> 0,
     cause |-> [kind |-> "none", status |-> 0, articles |-> Undefined]]

(***************************************************************************)
(* bcryptjs, as the handlers use it: a one-way digest of the text that      *)
(* compare accepts for that text only (inputs here are under 72 bytes).     *)
(***************************************************************************)
Hash(text) == [alg |-> "bcrypt", rounds |-> SaltRounds, of |-> text]

Compare(text, hash) == hash.of = text

(***************************************************************************)
(* Tokens.                                                                  *)
(***************************************************************************)
\* jwt.sign(payload, JWT_SECRET, {expiresIn: '1h'})
createToken(email) == [email |-> email, iat |-> now, sig |-> JWT_SECRET]

\* the Authorization header's text: words, spaces and tokens
Sp == [text |-> " ", jwt |-> NoTok]

Word(w) == [text |-> w, jwt |-> NoTok]

Jwt(tok) == [text |-> "jwt", jwt |-> tok]

NoHeader == [kind |-> "undefined", atoms |-> <<>>]

Header(atoms) == [kind |-> "string", atoms |-> atoms]

Bearer(tok) == Header(<<Word("Bearer"), Sp, Jwt(tok)>>)

RECURSIVE Split(_)
\* String.prototype.split(' ')
Split(atoms) ==
    IF \A i \in 1..Len(atoms) : atoms[i] # Sp THEN <<atoms>>
    ELSE LET i == CHOOSE i \in 1..Len(atoms) :
                      atoms[i] = Sp /\ \A j \in 1..(i - 1) : atoms[j] # Sp
         IN <<SubSeq(atoms, 1, i - 1)>> \o Split(SubSeq(atoms, i + 1, Len(atoms)))

\* a variant that still takes a token in the second it expires
JwtVerifiesLate(part) ==
    /\ Len(part) = 1
    /\ part[1].text = "jwt"
    /\ part[1].jwt.sig = JWT_SECRET
    /\ now <= part[1].jwt.iat + ExpiresIn

\* jwt.verify(token, JWT_SECRET) does not throw
JwtVerifies(part) ==
    /\ Len(part) = 1
    /\ part[1].text = "jwt"
    /\ part[1].jwt.sig = JWT_SECRET
    /\ now < part[1].jwt.iat + ExpiresIn

\* authMiddleware: whether next() is called, and the key the record was found
\* under (req.user is the object the Map holds there)
authMiddleware(h) ==
    LET auth == IF h.kind = "string" /\ h.atoms # <<>> THEN h.atoms ELSE <<>>
        parts == Split(auth)
        deny == [pass |-> FALSE, user |-> <<>>]
    IN IF parts[1] # <<Word("Bearer")>> \/ Len(parts) < 2 THEN deny
       ELSE IF parts[2] = <<>> THEN deny
       ELSE IF ~JwtVerifies(parts[2]) THEN deny
       ELSE IF ~MapHas(users, parts[2][1].jwt.email) THEN deny
       ELSE [pass |-> TRUE, user |-> parts[2][1].jwt.email]

Unauthorized(op) == Reply(op, 401, "Unauthorized")

(***************************************************************************)
(* POST /users/signup                                                       *)
(***************************************************************************)
\* a variant that measures the password before it looks at the email
SignupValidateLengthFirst(body) ==
    IF ~Truthy(body.email) \/ ~Truthy(body.password)
    THEN "Email and password are required"
    ELSE IF Len(StringOf(body.password)) < 6 THEN "Password too short"
    ELSE IF ~emailRegex(StringOf(body.email)) THEN "Invalid email"
    ELSE ""

\* the three checks, in the handler's order: the error sent, "" when none
SignupValidate(body) ==
    IF ~Truthy(body.email) \/ ~Truthy(body.password)
    THEN "Email and password are required"
    ELSE IF ~emailRegex(StringOf(body.email)) THEN "Invalid email"
    ELSE IF Len(StringOf(body.password)) < 6 THEN "Password too short"
    ELSE ""

\* a variant that keys the record by the email as typed
normalizedEmailAsTyped(body) == StringOf(body.email)

normalizedEmail(body) == ToLowerCase(StringOf(body.email))

\* a variant that keeps the stored name when the new body has none
NewUserMerged(body) ==
    [name |-> IF Truthy(body.name) THEN body.name
              ELSE IF MapHas(users, normalizedEmail(body))
              THEN users[normalizedEmail(body)].name ELSE Str(<<>>),
     email |-> normalizedEmail(body),
     passwordHash |-> Hash(StringOf(body.password)),
     preferences |-> IF IsArray(body.preferences) THEN body.preferences
                     ELSE Arr(<<>>)]

\* a variant that stores the preferences field as it came
NewUserAnyPreferences(body) ==
    [name |-> IF Truthy(body.name) THEN body.name ELSE Str(<<>>),
     email |-> normalizedEmail(body),
     passwordHash |-> Hash(StringOf(body.password)),
     preferences |-> IF body.preferences.kind = "undefined" THEN Arr(<<>>)
                     ELSE body.preferences]

\* the record the handler builds once the hash is there
NewUser(body) ==
    [name |-> IF Truthy(body.name) THEN body.name ELSE Str(<<>>),
     email |-> normalizedEmail(body),
     passwordHash |-> Hash(StringOf(body.password)),
     preferences |-> IF IsArray(body.preferences) THEN body.preferences
                     ELSE Arr(<<>>)]

InFlight ==
    Cardinality(pendingSignups) + Cardinality(pendingLogins)
        + Cardinality(pendingNews)

\* the handler up to `await bcrypt.hash`
SignupStart(body, room) ==
    /\ IF SignupValidate(body) # ""
       THEN /\ last' = [Reply("signup", 400, SignupValidate(body))
                           EXCEPT !.req = body]
            /\ UNCHANGED pendingSignups
       ELSE /\ room
            /\ pendingSignups' = pendingSignups \cup {body}
            /\ UNCHANGED last
    /\ UNCHANGED <<users, now, ticks, apiKey, issued, carried, pendingLogins,
                   pendingNews, hist>>

\* the hash resolves: build the record, users.set, answer
SignupHashed(body) ==
    /\ body \in pendingSignups
    /\ pendingSignups' = pendingSignups \ {body}
    /\ users' = MapSet(users, normalizedEmail(body), NewUser(body))
    /\ hist' = MapSet(hist, normalizedEmail(body),
                      [req |-> body,
                       prev |-> IF MapHas(hist, normalizedEmail(body))
                                THEN hist[normalizedEmail(body)].req.password
                                ELSE Undefined,
                       rec |-> users'[normalizedEmail(body)],
                       put |-> Undefined])
    /\ last' = [Reply("signup", 200, "Signup successful") EXCEPT !.req = body]
    /\ UNCHANGED <<now, ticks, apiKey, issued, carried, pendingLogins,
                   pendingNews>>

\* the hash rejects: the catch block answers 500
SignupHashFailed(body) ==
    /\ body \in pendingSignups
    /\ pendingSignups' = pendingSignups \ {body}
    /\ last' = [Reply("signup", 500, "Internal Server Error") EXCEPT !.req = body]
    /\ UNCHANGED <<users, now, ticks, apiKey, issued, carried, pendingLogins,
                   pendingNews, hist>>

(***************************************************************************)
(* POST /users/login                                                        *)
(***************************************************************************)
OrEmpty(v) == IF Truthy(v) THEN v ELSE Str(<<>>)

\* a variant that looks the email up as typed
LoginKeyAsTyped(body) == StringOf(OrEmpty(body.email))

\* String(email || '').toLowerCase()
LoginKey(body) == ToLowerCase(StringOf(OrEmpty(body.email)))

InvalidCredentials == Reply("login", 401, "Invalid credentials")

\* what the handler holds across `await bcrypt.compare`: the record found
\* (its email and hash never change) and the text to compare
LoginCapture(body) ==
    [email |-> users[LoginKey(body)].email,
     passwordHash |-> users[LoginKey(body)].passwordHash,
     password |-> StringOf(OrEmpty(body.password))]

\* a variant that says which of the two went wrong
LoginReplyTelling(held) ==
    IF ~Compare(held.password, held.passwordHash)
    THEN Reply("login", 401, "Wrong password")
    ELSE [Reply("login", 200, "") EXCEPT !.token = createToken(held.email)]

\* the answer once compare resolves
LoginReply(held) ==
    IF ~Compare(held.password, held.passwordHash) THEN InvalidCredentials
    ELSE [Reply("login", 200, "") EXCEPT !.token = createToken(held.email)]

\* the whole handler, for a login that nothing interleaves with
LoginNow(body) ==
    IF ~MapHas(users, LoginKey(body)) THEN InvalidCredentials
    ELSE LoginReply(LoginCapture(body))

\* the handler up to `await bcrypt.compare`
LoginStart(body, room) ==
    /\ IF ~MapHas(users, LoginKey(body))
       THEN /\ last' = InvalidCredentials
            /\ UNCHANGED pendingLogins
       ELSE /\ room
            /\ pendingLogins' = pendingLogins \cup {LoginCapture(body)}
            /\ UNCHANGED last
    /\ UNCHANGED <<users, now, ticks, apiKey, issued, carried, pendingSignups,
                   pendingNews, hist>>

\* compare resolves
LoginCompared(held, maxTokens) ==
    /\ held \in pendingLogins
    /\ LoginReply(held).status = 200 =>
           \/ createToken(held.email) \in issued
           \/ Cardinality(issued) < maxTokens
    /\ pendingLogins' = pendingLogins \ {held}
    /\ last' = LoginReply(held)
    /\ issued' = IF LoginReply(held).status = 200
                 THEN issued \cup {createToken(held.email)} ELSE issued
    /\ UNCHANGED <<users, now, ticks, apiKey, carried, pendingSignups,
                   pendingNews, hist>>

\* compare rejects: the catch block answers 500
LoginCompareFailed(held) ==
    /\ held \in pendingLogins
    /\ pendingLogins' = pendingLogins \ {held}
    /\ last' = Reply("login", 500, "Internal Server Error")
    /\ UNCHANGED <<users, now, ticks, apiKey, issued, carried, pendingSignups,
                   pendingNews, hist>>

(***************************************************************************)
(* GET and PUT /users/preferences.  authMiddleware calls next() in the same *)
(* synchronous stretch, so gate and handler are one step.                   *)
(***************************************************************************)
GetPreferencesReply(h) ==
    IF ~authMiddleware(h).pass THEN Unauthorized("getPrefs")
    ELSE [Reply("getPrefs", 200, "")
             EXCEPT !.prefs =
                 IF Truthy(users[authMiddleware(h).user].preferences)
                 THEN users[authMiddleware(h).user].preferences
                 ELSE Arr(<<>>)]

GetPreferences(h) ==
    /\ last' = GetPreferencesReply(h)
    /\ UNCHANGED <<users, now, ticks, apiKey, issued, carried, pendingSignups,
                   pendingLogins, pendingNews, hist>>

PutPreferencesReply(h, body) ==
    IF ~authMiddleware(h).pass THEN Unauthorized("putPrefs")
    ELSE IF ~IsArray(body.preferences)
    THEN Reply("putPrefs", 400, "preferences must be an array")
    ELSE Reply("putPrefs", 200, "Preferences updated")

\* a variant that adds the new entries to the ones held
PutUsersAppended(k, preferences) ==
    LET user == [users[k] EXCEPT
                    !.preferences = Arr(@.items \o preferences.items)]
    IN MapSet(MapSet(users, k, user), user.email, user)

\* a variant that stores a record rebuilt from the token's email
PutUsersRebuilt(k, preferences) ==
    MapSet(users, k, [name |-> Str(<<>>), email |-> k,
                      passwordHash |-> users[k].passwordHash,
                      preferences |-> preferences])

\* req.user.preferences = preferences changes the object the Map holds under
\* key k; users.set(req.user.email, req.user) then stores that same object
PutUsers(k, preferences) ==
    LET user == [users[k] EXCEPT !.preferences = preferences]
    IN MapSet(MapSet(users, k, user), user.email, user)

PutPreferences(h, body) ==
    /\ last' = PutPreferencesReply(h, body)
    /\ IF PutPreferencesReply(h, body).status = 200
       THEN /\ users' = PutUsers(authMiddleware(h).user, body.preferences)
            /\ hist' = [hist EXCEPT ![authMiddleware(h).user].put =
                                        body.preferences]
       ELSE UNCHANGED <<users, hist>>
    /\ UNCHANGED <<now, ticks, apiKey, issued, carried, pendingSignups,
                   pendingLogins, pendingNews>>

(***************************************************************************)
(* GET /news                                                                *)
(***************************************************************************)
NewsItem(keys, id, title, source, url, category) ==
    [keys |-> keys, id |-> id, title |-> title, source |-> source,
     url |-> url, category |-> category]

\* the item sent when no key is configured
SampleNoKey ==
    NewsItem({"id", "title", "source", "url"}, "1", "Sample headline",
             "Sample source", "https://example.com/sample-news", "")

\* the item the catch block sends
SampleFallback ==
    NewsItem({"id", "title", "category"}, "1", "Sample headline", "", "",
             "general")

\* prefs.length ? prefs.slice(0, 3).join(' OR ') : 'technology'
NewsQuery(preferences) ==
    LET prefs == IF IsArray(preferences) THEN preferences.items ELSE <<>>
    IN IF Len(prefs) > 0
       THEN Join(SubSeq(prefs, 1, IF Len(prefs) < 3 THEN Len(prefs) ELSE 3),
                 <<" ", "O", "R", " ">>)
       ELSE <<"t","e","c","h","n","o","l","o","g","y">>

\* what axios.get can come back with: no response, or a status and a body
NetworkError == [kind |-> "error", status |-> 0, articles |-> Undefined]

Response(status, articles) ==
    [kind |-> "response", status |-> status, articles |-> articles]

\* an element of data.articles: an object, or null
Article(title, source, url) ==
    [kind |-> "object", title |-> title, source |-> source, url |-> url]

NullArticle == [kind |-> "null", title |-> "", source |-> "", url |-> ""]

IdString(n) == <<"1", "2", "3", "4">>[n]

\* data.articles.map((a, idx) => ({id, title, source, url}))
MapArticles(articles) ==
    [idx \in 1..Len(articles) |->
        NewsItem({"id", "title", "source", "url"}, IdString(idx),
                 articles[idx].title, articles[idx].source, articles[idx].url, "")]

\* a variant in which axios resolves whatever the status
NewsThrowsAnyStatus(outcome) ==
    \/ outcome.kind = "error"
    \/ /\ IsArray(outcome.articles)
       /\ \E i \in 1..Len(outcome.articles.items) :
              outcome.articles.items[i].kind = "null"

\* axios.get rejects (no response, or a status outside 2xx), or reading a
\* null element's title throws: control reaches the catch block
NewsThrows(outcome) ==
    \/ outcome.kind = "error"
    \/ outcome.status \notin 200..299
    \/ /\ IsArray(outcome.articles)
       /\ \E i \in 1..Len(outcome.articles.items) :
              outcome.articles.items[i].kind = "null"

\* the list sent once the call has come back
NewsOf(outcome) ==
    IF NewsThrows(outcome) THEN <<SampleFallback>>
    ELSE IF IsArray(outcome.articles) THEN MapArticles(outcome.articles.items)
    ELSE <<>>

\* the handler up to `await axios.get`
NewsStartReply(h) ==
    IF ~authMiddleware(h).pass THEN Unauthorized("news")
    ELSE [Reply("news", 200, "") EXCEPT !.news = <<SampleNoKey>>]

NewsStart(h, room) ==
    /\ IF ~authMiddleware(h).pass \/ ~Truthy(apiKey)
       THEN /\ last' = NewsStartReply(h)
            /\ UNCHANGED pendingNews
       ELSE /\ room
            /\ pendingNews' = pendingNews \cup
                   {[q |-> NewsQuery(users[authMiddleware(h).user].preferences),
                     calls |-> 1]}
            /\ UNCHANGED last
    /\ UNCHANGED <<users, now, ticks, apiKey, issued, carried, pendingSignups,
                   pendingLogins, hist>>

\* the call comes back, one way or another
NewsReplied(call, outcome) ==
    /\ call \in pendingNews
    /\ pendingNews' = pendingNews \ {call}
    /\ last' = [Reply("news", 200, "") EXCEPT !.news = NewsOf(outcome),
                                              !.calls = call.calls,
                                              !.cause = outcome]
    /\ UNCHANGED <<users, now, ticks, apiKey, issued, carried, pendingSignups,
                   pendingLogins, hist>>

(***************************************************************************)
(* Time.                                                                    *)
(***************************************************************************)
Tick(step, maxTicks) ==
    /\ ticks < maxTicks
    /\ ticks' = ticks + 1
    /\ now' = now + step
    /\ UNCHANGED <<users, apiKey, issued, carried, pendingSignups,
                   pendingLogins, pendingNews, hist, last>>

(***************************************************************************)
(* Inputs.                                                                  *)
(***************************************************************************)
MailA == <<"a", "@", "b", ".", "c">>

MailAUpper == <<"A", "@", "B", ".", "c">>

MailB == <<"b", "@", "b", ".", "c">>

MailNoAt == <<"a", "b", ".", "c">>

MailNoDot == <<"a", "@", "b", "c">>

MailSpaced == <<"a", " ", "@", "b", ".", "c">>

Digits6 == <<"1", "2", "3", "4", "5", "6">>

Secret == <<"s", "e", "c", "r", "e", "t">>

Short5 == <<"s", "e", "c", "r", "e">>

NameN == Str(<<"n">>)

PrefsAB == Arr(<<EStr(<<"a">>), EStr(<<"b">>)>>)

PrefsBAA == Arr(<<EStr(<<"b">>), EStr(<<"a">>), EStr(<<"a">>)>>)

PrefsNum == Arr(<<ENum(<<"1">>)>>)

PrefsText == Str(<<"a">>)

KeyText == Str(<<"k">>)

\* how a client can spell the Authorization header around a token
HeaderOf(form, tok) ==
    CASE form = "none" -> NoHeader
      [] form = "empty" -> Header(<<>>)
      [] form = "bearer" -> Bearer(tok)
      [] form = "lowercase" -> Header(<<Word("bearer"), Sp, Jwt(tok)>>)
      [] form = "basic" -> Header(<<Word("Basic"), Sp, Jwt(tok)>>)
      [] form = "bare" -> Header(<<Jwt(tok)>>)
      [] form = "schemeOnly" -> Header(<<Word("Bearer")>>)
      [] form = "twoSpaces" -> Header(<<Word("Bearer"), Sp, Sp, Jwt(tok)>>)
      [] form = "leadingSpace" -> Header(<<Sp, Word("Bearer"), Sp, Jwt(tok)>>)
      [] form = "trailing" -> Header(<<Word("Bearer"), Sp, Jwt(tok), Sp, Word("x")>>)
      [] form = "glued" -> Header(<<Word("Bearer"), Sp, Jwt(tok), Word("x")>>)
      [] form = "garbled" -> Header(<<Word("Bearer"), Sp, Word("x")>>)
      [] OTHER -> Bearer([tok EXCEPT !.sig = "forged"])

\* the tokens a client can present: those it was given
Held == issued \cup carried

\* the headers of a scenario: each of its forms around each token held (or
\* around no token, when none is held)
Headers(c) ==
    {HeaderOf(form, tok) : form \in c.forms,
                           tok \in IF Held = {} THEN {NoTok} ELSE Held}

(***************************************************************************)
(* The system.  A scenario c names the inputs the requests are drawn from,  *)
(* and whether clients wait for an answer before they send the next         *)
(* request (sequential) or up to MaxInFlight requests overlap.              *)
(***************************************************************************)
\* the bound on what a scenario is not about
Few == 1

MaxTicks == 2

MaxTokens == 2

MaxInFlight == 2

\* whether a request that will suspend may start
Room(c) == IF c.sequential THEN InFlight = 0 ELSE InFlight < MaxInFlight

InitOf(c) ==
    /\ users = EmptyMap
    /\ now = 0
    /\ ticks = 0
    /\ apiKey \in c.apiKeys
    /\ issued = {}
    /\ carried \in c.carried
    /\ pendingSignups = {}
    /\ pendingLogins = {}
    /\ pendingNews = {}
    /\ hist = EmptyMap
    /\ last = Reply("none", 0, "")

NextOf(c) ==
    \/ \E body \in c.signups : SignupStart(body, Room(c))
    \/ \E body \in pendingSignups : SignupHashed(body)
    \/ \E body \in pendingSignups : SignupHashFailed(body)
    \/ \E body \in c.logins : LoginStart(body, Room(c))
    \/ \E held \in pendingLogins : LoginCompared(held, c.maxTokens)
    \/ \E held \in pendingLogins : LoginCompareFailed(held)
    \/ \E h \in Headers(c) : GetPreferences(h)
    \/ \E h \in Headers(c), body \in c.puts : PutPreferences(h, body)
    \/ \E h \in Headers(c) : NewsStart(h, Room(c))
    \/ \E call \in pendingNews, outcome \in c.outcomes : NewsReplied(call, outcome)
    \/ \E step \in c.steps : Tick(step, c.maxTicks)

SignA == Body(Undefined, Str(MailA), Str(Digits6), Undefined)

SignAUpper == Body(NameN, Str(MailAUpper), Str(Secret), PrefsAB)

SignANumber == Body(Undefined, Str(MailA), Num(Digits6), PrefsText)

SignB == Body(NameN, Str(MailB), Str(Secret), PrefsNum)

LoginWith(email, password) == Body(Undefined, email, password, Undefined)

PutWith(preferences) == Body(Undefined, Undefined, Undefined, preferences)

\* accounts: signups that overwrite one another, and logins of every kind
Accounts ==
    [signups |->
        {SignA, SignAUpper, SignANumber, SignB,
         Body(Undefined, Str(MailNoAt), Str(Short5), PrefsAB)},
     logins |->
        {LoginWith(Str(MailAUpper), Str(Secret)),
         LoginWith(Str(MailA), Num(Digits6)),
         LoginWith(Str(MailA), Undefined),
         LoginWith(Str(MailB), Str(Digits6)),
         LoginWith(Undefined, Str(Secret))},
     puts |-> {PutWith(PrefsBAA)},
     forms |-> {"bearer"},
     outcomes |-> {NetworkError},
     apiKeys |-> {KeyText},
     carried |-> {{}},
     steps |-> {ExpiresIn},
     maxTicks |-> Few,
     maxTokens |-> Few,
     sequential |-> TRUE]

Init == InitOf(Accounts)

Next == NextOf(Accounts)

Spec == Init /\ [][Next]_vars

\* validation: signup bodies that fail one rule, or several at once
Validation ==
    [signups |->
        {SignA, SignB,
         Body(NameN, Undefined, Str(Secret), Undefined),
         Body(Undefined, Str(MailA), Undefined, PrefsAB),
         Body(Undefined, Undefined, Undefined, Undefined),
         Body(Undefined, Str(<<>>), Str(Short5), Undefined),
         Body(Undefined, Str(MailNoAt), Str(<<>>), Undefined),
         Body(Undefined, Str(MailB), Num(<<"0">>), Undefined),
         Body(Undefined, Str(MailNoAt), Str(Short5), PrefsAB),
         Body(NameN, Str(MailNoDot), Str(Secret), Undefined),
         Body(Undefined, Str(MailSpaced), Str(Secret), Undefined),
         Body(Undefined, Str(<<"a", "@", "@", "b", ".", "c">>), Str(Secret), Undefined),
         Body(Undefined, Str(<<"@", "b", ".", "c">>), Str(Short5), Undefined),
         Body(Undefined, Str(<<"a", "@", ".", "c">>), Str(Secret), Undefined),
         Body(Undefined, Str(<<"a", "@", "b", ".">>), Str(Secret), Undefined),
         Body(Undefined, Str(<<"a", "@", "b", ".", ".", "c">>), Str(Short5), Undefined),
         Body(NameN, Str(MailA), Str(Short5), PrefsAB),
         Body(Undefined, Str(MailB), Num(<<"1", "2", "3">>), Undefined)},
     logins |-> {LoginWith(Str(MailA), Str(Digits6))},
     puts |-> {PutWith(PrefsBAA)},
     forms |-> {"bearer"},
     outcomes |-> {NetworkError},
     apiKeys |-> {KeyText},
     carried |-> {{}},
     steps |-> {ExpiresIn},
     maxTicks |-> Few,
     maxTokens |-> Few,
     sequential |-> TRUE]

SpecValidation == InitOf(Validation) /\ [][NextOf(Validation)]_vars

\* preferences: overlapping signups for one email, and updates in between
Preferences ==
    [signups |-> {SignA, SignAUpper},
     logins |-> {LoginWith(Str(MailA), Str(Digits6))},
     puts |-> {PutWith(PrefsBAA), PutWith(Arr(<<>>)), PutWith(PrefsText)},
     forms |-> {"bearer"},
     outcomes |-> {NetworkError},
     apiKeys |-> {KeyText},
     carried |-> {{}},
     steps |-> {ExpiresIn},
     maxTicks |-> Few,
     maxTokens |-> Few,
     sequential |-> FALSE]

SpecPreferences == InitOf(Preferences) /\ [][NextOf(Preferences)]_vars

\* a token an earlier run of the process signed for MailA at second 0
OldToken == [email |-> MailA, iat |-> 0, sig |-> JWT_SECRET]

\* every spelling of the Authorization header a client may send
Spellings ==
    [forms |-> {"none", "empty", "bearer", "lowercase", "basic", "bare",
                "schemeOnly", "twoSpaces", "leadingSpace", "trailing", "glued",
                "garbled", "forged"}]

\* authentication: requests under three of the spellings, tokens that age and expire,
\* a signup that overwrites the record a token was issued for
Authentication ==
    [signups |-> {SignA, SignAUpper},
     logins |-> {LoginWith(Str(MailAUpper), Str(Digits6))},
     puts |-> {PutWith(PrefsBAA)},
     forms |-> {"none", "bearer", "trailing"},
     outcomes |-> {NetworkError},
     apiKeys |-> {KeyText},
     carried |-> {{OldToken}},
     steps |-> {1, ExpiresIn - 1},
     maxTicks |-> MaxTicks,
     maxTokens |-> MaxTokens,
     sequential |-> TRUE]

SpecAuthentication == InitOf(Authentication) /\ [][NextOf(Authentication)]_vars

PrefsABCD ==
    Arr(<<EStr(<<"a">>), EStr(<<"b">>), EStr(<<"c">>), EStr(<<"d">>)>>)

ArticleOne == Article("t1", "s1", "u1")

ArticleTwo == Article("t2", "", "u2")

\* news: with and without a key, and everything the provider can answer
News ==
    [signups |-> {SignA, SignAUpper},
     logins |-> {LoginWith(Str(MailA), Str(Digits6)),
                 LoginWith(Str(MailA), Str(Secret))},
     puts |-> {PutWith(PrefsABCD)},
     forms |-> {"none", "bearer"},
     outcomes |->
        {NetworkError,
         Response(500, Undefined),
         Response(404, Arr(<<ArticleOne>>)),
         Response(200, Undefined),
         Response(200, Str(<<"x">>)),
         Response(200, Obj),
         Response(200, Arr(<<>>)),
         Response(200, Arr(<<ArticleOne>>)),
         Response(200, Arr(<<ArticleOne, ArticleTwo>>)),
         Response(200, Arr(<<ArticleOne, NullArticle>>))},
     apiKeys |-> {Undefined, Str(<<>>), KeyText},
     carried |-> {{}},
     steps |-> {ExpiresIn},
     maxTicks |-> Few,
     maxTokens |-> Few,
     sequential |-> TRUE]

SpecNews == InitOf(News) /\ [][NextOf(News)]_vars

(***************************************************************************)
(* Properties of signup and login, under Spec.                              *)
(***************************************************************************)
\* what the claims call a missing or empty field
Missing(v) == ~Truthy(v)

\* the preferences a signup body asks for: its array, or none
Asked(body) == IF IsArray(body.preferences) THEN body.preferences ELSE Arr(<<>>)

\* the credentials of the signup that last wrote key k, as a login body
Credentials(k) ==
    Body(Undefined, hist[k].req.email, hist[k].req.password, Undefined)

\* C1: once a signup with (e, p) has answered 200, a login with the same (e, p)
\* answers 200 with a token, and GET /users/preferences with that token answers
\* 200 with the empty array when the signup had no preferences field, with the
\* signup's array when it had one, as long as no preference update followed.
C1_SignupLoginGet ==
    \A k \in DOMAIN hist :
        LET login == LoginNow(Credentials(k))
            get == GetPreferencesReply(Bearer(login.token))
        IN /\ login.status = 200
           /\ login.token # NoTok
           /\ (/\ hist[k].put = Undefined
               /\ hist[k].req.preferences.kind \in {"undefined", "array"})
                  => /\ get.status = 200
                     /\ get.prefs = Asked(hist[k].req)

\* a signup without preferences, a login and a GET that answered the empty array
C1_Witness ==
    /\ last.op = "getPrefs"
    /\ last.status = 200
    /\ last.prefs = Arr(<<>>)
    /\ \E k \in DOMAIN hist :
           /\ hist[k].put = Undefined
           /\ hist[k].req.preferences = Undefined
           /\ \E tok \in issued : tok.email = k

\* what of the record under k a second signup decides: the name and, until a
\* PUT, the preferences are those of the body that wrote last
SecondOnly(k) ==
    /\ users[k].name = IF Truthy(hist[k].req.name) THEN hist[k].req.name
                       ELSE Str(<<>>)
    /\ hist[k].put = Undefined => users[k].preferences = Asked(hist[k].req)
    /\ LoginNow(Credentials(k)).status = 200

\* the login with the password of the signup that the last one replaced
OldLogin(k) ==
    LoginNow(Body(Undefined, hist[k].req.email, hist[k].prev, Undefined))

\* C2 as stated: after two signups for one normalized email with passwords
\* p1 then p2, p1 # p2, a login with p2 answers 200, a login with p1 answers
\* 401, and name and preferences are the second signup's.
C2_AsStated ==
    \A k \in DOMAIN hist :
        (hist[k].prev # Undefined /\ hist[k].prev # hist[k].req.password)
            => SecondOnly(k) /\ OldLogin(k).status = 401

\* C2 amended: the same, for passwords whose texts String(p1), String(p2) differ.
C2_LastSignupWins ==
    \A k \in DOMAIN hist :
        (/\ hist[k].prev # Undefined
         /\ StringOf(hist[k].prev) # StringOf(hist[k].req.password))
            => SecondOnly(k) /\ OldLogin(k).status = 401

\* a second signup under another spelling of the email, with another password
C2_Witness ==
    /\ last.op = "signup"
    /\ last.status = 200
    /\ \E k \in DOMAIN hist :
           /\ hist[k].req = last.req
           /\ hist[k].prev # Undefined
           /\ StringOf(hist[k].prev) # StringOf(hist[k].req.password)
           /\ hist[k].req.email # Str(k)

\* a login for an email without a record, and one for a registered email with
\* a password whose text is not the one signed up with
Unknown(body) == ~MapHas(users, LoginKey(body))

WrongPassword(body) ==
    /\ MapHas(hist, LoginKey(body))
    /\ StringOf(OrEmpty(body.password))
           # StringOf(hist[LoginKey(body)].req.password)

C5_Alike ==
    /\ \A b1, b2 \in Accounts.logins :
           (Unknown(b1) /\ WrongPassword(b2))
               => /\ LoginNow(b1) = LoginNow(b2)
                  /\ LoginNow(b1).status = 401
                  /\ LoginNow(b1).token = NoTok
    /\ (last.op = "login" /\ last.status = 401) => last = InvalidCredentials

\* C5: a login for an unknown email and a login for a registered email with a
\* wrong password (a missing one counts as empty) answer alike, 401 with the
\* same body, and a login that answers 401 changes neither the store nor the
\* tokens issued.
C5_LoginTellsNothing ==
    /\ []C5_Alike
    /\ [][(last'.op = "login" /\ last'.status = 401 /\ last' # last)
             => (users' = users /\ issued' = issued)]_vars

\* a login answered 401 while both kinds of failing login exist
C5_Witness ==
    /\ last = InvalidCredentials
    /\ \E b1, b2 \in Accounts.logins :
           /\ Unknown(b1) /\ b1.email # Undefined
           /\ WrongPassword(b2) /\ b2.password = Undefined

\* the 400 the claim's order of rules gives a body, "" when it passes all three
FirstFailing(body) ==
    CASE Missing(body.email) \/ Missing(body.password) ->
             "Email and password are required"
      [] ~(Missing(body.email) \/ Missing(body.password))
           /\ ~emailRegex(StringOf(body.email)) -> "Invalid email"
      [] ~(Missing(body.email) \/ Missing(body.password))
           /\ emailRegex(StringOf(body.email))
           /\ Len(StringOf(body.password)) < 6 -> "Password too short"
      [] OTHER -> ""

C7_Order ==
    last.op = "signup" =>
        /\ FirstFailing(last.req) # ""
               => last.status = 400 /\ last.text = FirstFailing(last.req)
        /\ FirstFailing(last.req) = "" => last.status # 400
        /\ Len(StringOf(OrEmpty(last.req.password))) < 6 => last.status = 400

IsStrings(v) ==
    IsArray(v) /\ \A i \in 1..Len(v.items) : v.items[i].kind = "string"

\* C8 as stated: a signup stores the preferences input when it is a sequence
\* of strings, and the empty sequence otherwise.
C8_AsStated ==
    \A k \in DOMAIN hist :
        hist[k].put = Undefined =>
            users[k].preferences =
                IF IsStrings(hist[k].req.preferences)
                THEN hist[k].req.preferences ELSE Arr(<<>>)

\* C8 amended: a signup stores the preferences input when it is an array,
\* whatever its elements, and the empty array otherwise.
C8_ArrayOrEmpty ==
    \A k \in DOMAIN hist :
        hist[k].put = Undefined =>
            users[k].preferences =
                IF IsArray(hist[k].req.preferences)
                THEN hist[k].req.preferences ELSE Arr(<<>>)

\* a signup with an array holding a number, and one with a string, both stored
C8_Witness ==
    /\ \E k \in DOMAIN hist :
           /\ hist[k].put = Undefined
           /\ hist[k].req.preferences = PrefsNum
           /\ users[k].preferences = PrefsNum
    /\ \E k \in DOMAIN hist :
           /\ hist[k].put = Undefined
           /\ hist[k].req.preferences = PrefsText
           /\ users[k].preferences = Arr(<<>>)

C10_Store ==
    /\ \A k \in DOMAIN users :
           /\ users[k].email = k
           /\ k # <<>>
           /\ ToLowerCase(k) = k
           /\ emailRegex(k)
           /\ IsArray(users[k].preferences)
    /\ \A k1, k2 \in DOMAIN users : ToLowerCase(k1) = ToLowerCase(k2) => k1 = k2
    /\ \A k \in DOMAIN hist :
           /\ MapHas(users, k)
           /\ k = ToLowerCase(StringOf(hist[k].req.email))

\* C10: every key is the email field of its record, a non-empty lower-cased
\* string of the email shape; emails that differ in case only share a record;
\* preferences is always an array; no record is ever removed.
C10_StoreInvariant ==
    /\ []C10_Store
    /\ [][DOMAIN users \subseteq DOMAIN users']_vars

\* two records, one of them signed up under an upper-case spelling
C10_Witness ==
    /\ Cardinality(DOMAIN users) = 2
    /\ \E k \in DOMAIN hist : hist[k].req.email # Str(k)

(***************************************************************************)
(* Properties of the preferences, under SpecPreferences.                    *)
(***************************************************************************)
\* what the history says GET returns for key k: the array of the last PUT
\* answered 200 since the last signup, or else what that signup asked for
Expected(k) == IF hist[k].put # Undefined THEN hist[k].put ELSE Asked(hist[k].req)

C3_Reads ==
    /\ \A h \in Headers(Preferences) :
           authMiddleware(h).pass =>
               /\ GetPreferencesReply(h).status = 200
               /\ GetPreferencesReply(h).prefs = Expected(authMiddleware(h).user)
               /\ \A body \in Preferences.puts :
                      ~IsArray(body.preferences)
                          => PutPreferencesReply(h, body).status = 400
    /\ (last.op = "getPrefs" /\ last.status = 200)
           => \E k \in DOMAIN hist : last.prefs = Expected(k)

\* C3: for an authenticated user GET /users/preferences returns the array of
\* the most recent PUT answered 200 since the user's last signup, in its
\* order and with its duplicates, or the signup's preferences when there was
\* none; a PUT whose preferences is not an array answers 400 and leaves what
\* GET returns as it was.
C3_GetReturnsLastPut ==
    /\ []C3_Reads
    /\ [][(last'.op = "putPrefs" /\ last'.status = 400)
             => (users' = users /\ hist' = hist)]_vars

\* a GET that answered the array of a PUT, after a signup with another array,
\* while a rejected PUT lies behind
C3_Witness ==
    /\ last.op = "getPrefs"
    /\ last.prefs = PrefsBAA
    /\ \E k \in DOMAIN hist :
           /\ hist[k].put = PrefsBAA
           /\ hist[k].req.preferences = PrefsAB
           /\ hist[k].prev # Undefined

\* the record the history gives key k: what the signup that wrote last
\* stored, with the preferences of the last PUT after it
Whole(k) ==
    [hist[k].rec EXCEPT
        !.preferences = IF hist[k].put # Undefined THEN hist[k].put ELSE @]

\* C9: however signups (suspended between validation and the store write) and
\* PUTs for one email interleave, a PUT changes neither the name nor the
\* password hash under any key and removes nothing, and the store holds,
\* whole, the record of the signup that wrote last with the preferences of
\* the last PUT after it.
C9_NoLostWrite ==
    /\ [](\A k \in DOMAIN users : MapHas(hist, k) /\ users[k] = Whole(k))
    /\ [][last'.op = "putPrefs" =>
             \A k \in DOMAIN users :
                 /\ MapHas(users', k)
                 /\ users'[k].name = users[k].name
                 /\ users'[k].email = users[k].email
                 /\ users'[k].passwordHash = users[k].passwordHash]_vars

\* a PUT answered 200 for a key that one signup has overwritten and for which
\* two more signups, with different names, are suspended
C9_Witness ==
    /\ last.op = "putPrefs"
    /\ last.status = 200
    /\ \E k \in DOMAIN hist, b1, b2 \in pendingSignups :
           /\ hist[k].put # Undefined
           /\ hist[k].prev # Undefined
           /\ normalizedEmail(b1) = k
           /\ normalizedEmail(b2) = k
           /\ b1.name # b2.name

(***************************************************************************)
(* Properties of the auth gate, under SpecAuthentication.                   *)
(***************************************************************************)
\* the header is exactly "Bearer <token>"
ExactShape(h) ==
    /\ h.kind = "string"
    /\ Len(h.atoms) = 3
    /\ h.atoms[1] = Word("Bearer")
    /\ h.atoms[2] = Sp
    /\ h.atoms[3].text = "jwt"

\* the header starts "Bearer <token>", and ends there or goes on after a space
StartShape(h) ==
    /\ h.kind = "string"
    /\ Len(h.atoms) >= 3
    /\ h.atoms[1] = Word("Bearer")
    /\ h.atoms[2] = Sp
    /\ h.atoms[3].text = "jwt"
    /\ Len(h.atoms) > 3 => h.atoms[4] = Sp

\* the token is signed with the secret, under an hour old, and for a stored email
Good(tok) ==
    /\ tok.sig = JWT_SECRET
    /\ now - tok.iat < ExpiresIn
    /\ MapHas(users, tok.email)

\* what a gate that fails answers on the three protected routes
Refused(h) ==
    /\ GetPreferencesReply(h) = Unauthorized("getPrefs")
    /\ \A body \in Authentication.puts :
           PutPreferencesReply(h, body) = Unauthorized("putPrefs")
    /\ NewsStartReply(h) = Unauthorized("news")

\* what a gate that passes answers: the handlers' own replies
Handled(h) ==
    /\ GetPreferencesReply(h).status = 200
    /\ \A body \in Authentication.puts : PutPreferencesReply(h, body).status # 401
    /\ NewsStartReply(h).status = 200

\* a token a login issued is taken until it is an hour old, whatever was
\* signed up or updated since, and refused from then on
IssuedLive ==
    \A tok \in issued :
        authMiddleware(Bearer(tok)).pass <=> now < tok.iat + ExpiresIn

\* C4 as stated: a protected handler runs if and only if the header has the
\* shape "Bearer <token>" with a token that is signed, under an hour old and
\* for a stored email; otherwise the answer is 401.
C4_AsStated ==
    /\ \A h \in Headers(Spellings) :
           LET runs == authMiddleware(h).pass
           IN /\ runs <=> (ExactShape(h) /\ Good(h.atoms[3].jwt))
              /\ IF runs THEN Handled(h) ELSE Refused(h)
    /\ IssuedLive

C4_Gate ==
    /\ \A h \in Headers(Spellings) :
           LET runs == authMiddleware(h).pass
           IN /\ runs <=> (StartShape(h) /\ Good(h.atoms[3].jwt))
              /\ IF runs THEN Handled(h) ELSE Refused(h)
    /\ IssuedLive

\* C4 amended: a protected handler runs if and only if the header's first two
\* space-separated fields are "Bearer" and a token that is signed, under an
\* hour old and for a stored email (what follows a further space is ignored);
\* otherwise the answer is 401 and the store is unchanged; a token a login
\* issued is taken until its expiry whatever happens in between, and refused
\* after.
C4_GateFirstTwoFields ==
    /\ []C4_Gate
    /\ [][(last'.status = 401 /\ last'.op \in {"getPrefs", "putPrefs", "news"})
             => (users' = users /\ hist' = hist)]_vars

\* a request refused while one issued token has expired and another, issued
\* before a signup with another password overwrote the record, is still good
C4_Witness ==
    /\ last.status = 401
    /\ last.op \in {"getPrefs", "putPrefs", "news"}
    /\ \E old, new \in issued :
           /\ now >= old.iat + ExpiresIn
           /\ now < new.iat + ExpiresIn
           /\ authMiddleware(Bearer(new)).pass
           /\ Compare(Secret, users[new.email].passwordHash)
           /\ hist[new.email].prev = Str(Digits6)

(***************************************************************************)
(* Properties of the news route, under SpecNews.                            *)
(***************************************************************************)
\* the provider's answer is a 2xx whose articles is not an array of objects
Malformed(outcome) ==
    /\ outcome.kind = "response"
    /\ outcome.status \in 200..299
    /\ \/ ~IsArray(outcome.articles)
       \/ \E i \in 1..Len(outcome.articles.items) :
              outcome.articles.items[i].kind = "null"

\* the call failed: no response, or a status outside 2xx
CallFailed(outcome) ==
    \/ outcome.kind = "error"
    \/ outcome.kind = "response" /\ outcome.status \notin 200..299

\* what holds of every answer to an authenticated GET /news
NewsAnswers ==
    /\ \A h \in Headers(News) :
           (authMiddleware(h).pass /\ ~Truthy(apiKey))
               => NewsStartReply(h).status = 200
    /\ ~Truthy(apiKey) => pendingNews = {}
    /\ \A call \in pendingNews : call.calls = 1
    /\ (last.op = "news" /\ last.status # 401) =>
           /\ last.status = 200
           /\ last.calls <= 1
           /\ ~Truthy(apiKey) =>
                  /\ last.calls = 0
                  /\ last.news = <<SampleNoKey>>
                  /\ last.news[1].keys = {"id", "title", "source", "url"}

C6_Fallback ==
    /\ NewsAnswers
    /\ (last.op = "news" /\ last.calls = 1) =>
           /\ (CallFailed(last.cause)
                  \/ (Malformed(last.cause) /\ IsArray(last.cause.articles)))
                  => /\ last.news = <<SampleFallback>>
                     /\ last.news[1].keys = {"id", "title", "category"}
           /\ (Malformed(last.cause) /\ ~IsArray(last.cause.articles))
                  => last.news = <<>>

====
